---- MODULE Spec2Model ----
(***************************************************************************)
(* A model of adpytools/microhttpd.py: the Dispatch binding table and its  *)
(* backward, segment-by-segment URL matcher (Dispatch.call), and the       *)
(* request handler built around it (MyHTTPRequestHandler.do_all).          *)
(*                                                                         *)
(* Strings are sequences of one-character strings.  Dispatch.call is       *)
(* modelled one loop iteration per step so that the loop itself (and       *)
(* whether it ends) is part of the model; bind and unbind act only while   *)
(* no call is running (the single-threaded use of the table).              *)
(***************************************************************************)
EXTENDS Integers, Sequences, FiniteSets, TLC

VARIABLES
    bindings,   \* Dispatch.bindings: key -> [method, note]
    pc,         \* "idle" | "loop" (inside call's while) | "done" (call returned)
    caller,     \* "api" (Dispatch.call called directly) | "http" (from do_all)
    url,        \* call's url argument (self.path under do_all)
    type,       \* call's type argument
    data,       \* call's data argument (reassigned on a non-PUT hit / default)
    match,      \* call's local match
    ext,        \* call's local ext
    iters,      \* loop iterations executed by the running call
    inv,        \* the handler invocations the running call made (0 or 1)
    ret,        \* <<>> until call returns, then <<the returned dictionary>>
    log,        \* history: the bind/unbind operations applied so far
    serial,     \* the module global serial
    sharedH,    \* the header list object a "shared" handler keeps returning
    wire,       \* what do_all has written to the client for this request
    prev        \* history: the last direct call that returned, and its table

vars == <<bindings, pc, caller, url, type, data, match, ext, iters, inv, ret,
          log, serial, sharedH, wire, prev>>

callVars == <<pc, caller, url, type, data, match, ext, iters, inv, ret>>
httpVars == <<serial, sharedH, wire>>

-----------------------------------------------------------------------------
(* Bounds of the model *)

\* URLs given to call are all strings over Alphabet up to this length
MaxLen == 4
\* the while loop of call is followed for at most this many iterations
MaxIters == 7
\* bind/unbind operations recorded in the history
MaxOps == 3
\* requests served by the request handler
MaxRequests == 3

-----------------------------------------------------------------------------
(* Strings *)

Alphabet == {"/", ".", "?", "a"}

StringsUpTo(n) == UNION {[1..k -> Alphabet] : k \in 0..n}

Empty == <<>>
Root == <<"/">>
Default == <<"d", "e", "f", "a", "u", "l", "t">>

Max(S) == CHOOSE x \in S : \A y \in S : y <= x

\* index of the last occurrence of c in s, 0 when there is none (str.rfind, 1-based)
RFind(s, c) ==
    LET I == {i \in 1..Len(s) : s[i] = c}
    IN IF I = {} THEN 0 ELSE Max(I)

\* s.rsplit(c, 1)[0]: the text before the last c, or all of s when c is absent
RSplitHead(s, c) ==
    IF RFind(s, c) = 0 THEN s ELSE SubSeq(s, 1, RFind(s, c) - 1)

\* s.split('/')[-1:][0]: the text after the last '/', or all of s
LastSegment(s) == SubSeq(s, RFind(s, "/") + 1, Len(s))

\* s.rpartition(c)[0] and [2]; without c in s they are '' and s
RPartHead(s, c) ==
    IF RFind(s, c) = 0 THEN <<>> ELSE SubSeq(s, 1, RFind(s, c) - 1)

RPartTail(s, c) == SubSeq(s, RFind(s, c) + 1, Len(s))

\* s[n:]
SliceFrom(s, n) == SubSeq(s, n + 1, Len(s))

IsPrefix(p, s) == Len(p) <= Len(s) /\ SubSeq(s, 1, Len(p)) = p

-----------------------------------------------------------------------------
(* Handlers and the dictionaries they return *)

\* A Python value that may be None: <<>> is None, <<v>> is the value v.
None == <<>>
Some(v) == <<v>>

OK == 200
NOT_FOUND == 404
BAD_REQUEST == 400
CONTINUE == 100
GONE == 410

\* the keys a handler may leave out of its dictionary: a dictionary is a record
\* of its present keys and their values (an absent key holds a placeholder)
Dict(keys, c, r, h) == [keys |-> keys, c |-> c, r |-> r, h |-> h]

\* a list object: a fresh one made by this call, or the one list a handler keeps
FreshList(items) == [ref |-> "fresh", items |-> items]
SharedList == [ref |-> "shared", items |-> <<>>]

ContentType == <<"Content-type", <<"t", "/", "p">>>>
SharedHeaders0 == <<ContentType>>
Body == <<"o", "k">>

\* literal pieces of echo's response string
EchoType == <<"e", "c", "h", "o", " ", "t", "y", "p", "e", ":">>
EchoMatch == <<" ", "m", "a", "t", "c", "h", ":">>
EchoExt == <<" ", "e", "x", "t", ":">>
EchoRest == <<" ", "r", "e", "s", "t", ":">>
EchoNote == <<" ", "n", "o", "t", "e", ":">>

TypeChars(t) ==
    CASE t = "GET" -> <<"G", "E", "T">>
      [] t = "PUT" -> <<"P", "U", "T">>
      [] t = "POST" -> <<"P", "O", "S", "T">>
      [] OTHER -> <<"D", "E", "L", "E", "T", "E">>

\* repr(note) for the notes of the model
ReprNote(n) ==
    CASE n = "None" -> <<"N", "o", "n", "e">>
      [] n = "n1" -> <<"'", "n", "1", "'">>
      [] OTHER -> <<"'", "n", "2", "'">>

\* the sample handler echo
echo(t, m, e, rest, note) ==
    Dict({"h", "r"}, 0,
         Some(EchoType \o TypeChars(t) \o EchoMatch \o m \o EchoExt \o e
              \o EchoRest \o rest \o EchoNote \o ReprNote(note)),
         Some(FreshList(<<ContentType>>)))

\* application handlers: echo; one returning {}; one returning the same
\* dictionary, holding the same header list object, on every call; one
\* returning an error status
Handlers == {"echo", "empty", "shared", "gone"}

HandlerResult(h, t, m, e, rest, note) ==
    CASE h = "echo" -> echo(t, m, e, rest, note)
      [] h = "empty" -> Dict({}, 0, None, None)
      [] h = "shared" -> Dict({"h", "r"}, 0, Some(Body), Some(SharedList))
      [] OTHER -> Dict({"c"}, GONE, None, None)

Invocation(h, t, m, e, rest, note) ==
    [method |-> h, type |-> t, match |-> m, ext |-> e, rest |-> rest, note |-> note]

-----------------------------------------------------------------------------
(* Dispatch *)

has_key(b, k) == k \in DOMAIN b

\* self.bindings[url] = {"method": method, "note": note}
BindTable(b, k, h, n) ==
    [x \in (DOMAIN b) \cup {k} |->
        IF x = k THEN [method |-> h, note |-> n] ELSE b[x]]

\* an unbind that deletes nothing
UnbindTableKeeps(b, k) == b

\* del self.bindings[url], a KeyError swallowed
UnbindTable(b, k) == [x \in (DOMAIN b) \ {k} |-> b[x]]

\* the test of the if in the loop: the last segment of match holds a '.'
HasExt(m) == RPartTail(LastSegment(m), ".") # LastSegment(m)

\* the two assignments of the else branch in the other order: ext taken from
\* match after match was cut at its last '.'
ExtOfAfterStrip(m) ==
    IF HasExt(m) THEN <<".">> \o RPartTail(RPartHead(m, "."), ".") ELSE Empty

\* ext after the if/else of the loop
ExtOf(m) == IF HasExt(m) THEN <<".">> \o RPartTail(m, ".") ELSE Empty

\* match after the if/else of the loop
StripExt(m) == IF HasExt(m) THEN RPartHead(m, ".") ELSE m

\* match = url.rsplit('?', 1)[0]
QueryStripped(u) == RSplitHead(u, "?")

\* a truncation at the first '/' instead of the last: match.split('/', 1)[0]
TruncateAtFirstSlash(m) ==
    IF RFind(m, "/") = 0 THEN m
    ELSE SubSeq(m, 1, (CHOOSE i \in 1..Len(m) :
                          m[i] = "/" /\ \A j \in 1..(i - 1) : m[j] # "/") - 1)

\* a truncation that drops one character instead of one segment: match[:-1]
TruncateOneCharacter(m) == SubSeq(m, 1, Len(m) - 1)

\* match = match.rsplit('/', 1)[0]
Truncate(m) == RSplitHead(m, "/")

\* a rest that forgets the extension: url[len(match):]
HitRestAfterMatch(u, t, d, m, e) == IF t # "PUT" THEN SliceFrom(u, Len(m)) ELSE d

\* rest on a hit: url[len(match + ext):] unless the type is PUT
HitRest(u, t, d, m, e) == IF t # "PUT" THEN SliceFrom(u, Len(m \o e)) ELSE d

\* rest for the default binding: url unless the type is PUT
DefaultRest(u, t, d) == IF t # "PUT" THEN u ELSE d

NotFoundResult == Dict({"r", "c", "h"}, NOT_FOUND, None, None)

Bind(k, h, n) ==
    /\ pc = "idle"
    /\ bindings' = BindTable(bindings, k, h, n)
    /\ UNCHANGED <<callVars, httpVars, prev>>

Unbind(k) ==
    /\ pc = "idle"
    /\ bindings' = UnbindTable(bindings, k)
    /\ UNCHANGED <<callVars, httpVars, prev>>

\* entry of call: the first line, up to the while
EnterCall(who, u, t, d) ==
    /\ pc' = "loop"
    /\ caller' = who
    /\ url' = u
    /\ type' = t
    /\ data' = d
    /\ match' = QueryStripped(u)
    /\ ext' = Empty
    /\ iters' = 0
    /\ inv' = <<>>
    /\ ret' = <<>>

CallBegin(u, t, d) ==
    /\ pc = "idle"
    /\ EnterCall("api", u, t, d)
    /\ UNCHANGED <<bindings, log, httpVars, prev>>

\* one iteration of the while that finds match bound: the handler is called
\* and call returns what it returns
LoopHit ==
    /\ pc = "loop"
    /\ Len(match) > 0
    /\ has_key(bindings, StripExt(match))
    /\ LET m == StripExt(match)
           e == ExtOf(match)
           rest == HitRest(url, type, data, m, e)
           b == bindings[m]
       IN /\ match' = m
          /\ ext' = e
          /\ data' = rest
          /\ inv' = Append(inv, Invocation(b.method, type, m, e, rest, b.note))
          /\ ret' = Some(HandlerResult(b.method, type, m, e, rest, b.note))
    /\ iters' = iters + 1
    /\ pc' = "done"
    /\ UNCHANGED <<bindings, caller, url, type, log, httpVars, prev>>

\* one iteration of the while that finds match unbound
LoopMiss ==
    /\ pc = "loop"
    /\ Len(match) > 0
    /\ iters < MaxIters
    /\ ~has_key(bindings, StripExt(match))
    /\ match' = Truncate(StripExt(match))
    /\ ext' = ExtOf(match)
    /\ iters' = iters + 1
    /\ UNCHANGED <<bindings, pc, caller, url, type, data, inv, ret, log, httpVars,
                   prev>>

\* the loop is over and a binding is under the key "default"
FallbackDefault ==
    /\ pc = "loop"
    /\ Len(match) = 0
    /\ has_key(bindings, Default)
    /\ LET rest == DefaultRest(url, type, data)
           b == bindings[Default]
       IN /\ data' = rest
          /\ inv' = Append(inv, Invocation(b.method, type, Empty, Empty, rest, b.note))
          /\ ret' = Some(HandlerResult(b.method, type, Empty, Empty, rest, b.note))
    /\ pc' = "done"
    /\ UNCHANGED <<bindings, caller, url, type, match, ext, iters, log, httpVars,
                   prev>>

\* the loop is over and nothing is under "default"
FallbackNotFound ==
    /\ pc = "loop"
    /\ Len(match) = 0
    /\ ~has_key(bindings, Default)
    /\ ret' = Some(NotFoundResult)
    /\ pc' = "done"
    /\ UNCHANGED <<bindings, caller, url, type, data, match, ext, iters, inv, log,
                   httpVars, prev>>

\* call's locals as they are when no call is running
NoCall ==
    /\ pc' = "idle"
    /\ caller' = "api"
    /\ url' = Empty
    /\ type' = "GET"
    /\ data' = Empty
    /\ match' = Empty
    /\ ext' = Empty
    /\ iters' = 0
    /\ inv' = <<>>
    /\ ret' = <<>>

\* a direct call has returned to its caller
ReturnToCaller ==
    /\ pc = "done"
    /\ caller = "api"
    /\ NoCall
    /\ UNCHANGED <<bindings, log, httpVars>>

CallReturn == ReturnToCaller /\ UNCHANGED prev

-----------------------------------------------------------------------------
(* The dispatcher on its own: keys of the module's examples, every short URL *)

A == <<"/", "a">>
AA == <<"/", "a", "/", "a">>
ADotA == <<"/", "a", ".", "a">>

KeyPool == {Root, A, AA, ADotA, Default}

\* the handler and note each key of KeyPool is bound with
HandlerFor(k) == IF k = Default THEN "empty" ELSE "echo"
NoteFor(k) == IF k \in {Root, AA} THEN "n1" ELSE IF k = A THEN "n2" ELSE "None"

\* URLs longer than MaxLen: the shapes of the module docstring, and "default"
ExtraURLs ==
    { AA \o <<".", "a">>,
      AA \o <<".", "a", "?", "a">>,
      AA \o <<"/", "a">>,
      ADotA \o <<".", "a">>,
      ADotA \o <<"/", "a">>,
      A \o <<"?", "a", "?", "a">>,
      Default,
      Default \o <<".", "a">>,
      Default \o <<".", "a", ".", "a">>,
      Default \o <<"/", "a">>,
      <<"/">> \o Default,
      AA \o <<"a">> }

URLs == StringsUpTo(MaxLen) \cup ExtraURLs

CallTypes == {"GET", "PUT"}
PutData == <<"x">>

Init ==
    /\ bindings = <<>>
    /\ pc = "idle"
    /\ caller = "api"
    /\ url = Empty
    /\ type = "GET"
    /\ data = Empty
    /\ match = Empty
    /\ ext = Empty
    /\ iters = 0
    /\ inv = <<>>
    /\ ret = <<>>
    /\ log = <<>>
    /\ serial = 0
    /\ sharedH = SharedHeaders0
    /\ wire = <<>>
    /\ prev = <<>>

BindKey ==
    /\ pc = "idle"
    /\ \E k \in KeyPool : Bind(k, HandlerFor(k), NoteFor(k)) /\ UNCHANGED log
UnbindKey ==
    /\ pc = "idle"
    /\ \E k \in KeyPool : Unbind(k) /\ UNCHANGED log
Call ==
    /\ pc = "idle"
    /\ \E u \in URLs, t \in CallTypes : CallBegin(u, t, PutData)

Next ==
    \/ BindKey
    \/ UnbindKey
    \/ Call
    \/ LoopHit
    \/ LoopMiss
    \/ FallbackDefault
    \/ FallbackNotFound
    \/ CallReturn

Spec == Init /\ [][Next]_vars

-----------------------------------------------------------------------------
(* Vocabulary of the properties, defined on the text of the URL alone *)

Returned == pc = "done"

\* the call that returned invoked exactly one handler / a path binding
InvokedOne == Returned /\ Len(inv) = 1
Hit == InvokedOne /\ inv[1].match # Empty

\* the text of u before its first c, all of u when it holds none
BeforeFirst(u, c) ==
    IF \E i \in 1..Len(u) : u[i] = c
    THEN SubSeq(u, 1, (CHOOSE i \in 1..Len(u) :
                          u[i] = c /\ \A j \in 1..(i - 1) : u[j] # c) - 1)
    ELSE u

\* the text of u before its last c, all of u when it holds none
BeforeLast(u, c) ==
    IF \E i \in 1..Len(u) : u[i] = c
    THEN SubSeq(u, 1, (CHOOSE i \in 1..Len(u) :
                          u[i] = c /\ \A j \in (i + 1)..Len(u) : u[j] # c) - 1)
    ELSE u

Contains(s, c) == \E i \in 1..Len(s) : s[i] = c

\* s continues after its prefix p with the character c
FollowedBy(p, s, c) == IsPrefix(p, s) /\ Len(s) > Len(p) /\ s[Len(p) + 1] = c

\* p is s, or a prefix of s that ends where a segment of s ends
SegmentPrefix(p, s) == p = s \/ FollowedBy(p, s, "/")

Longest(S) == CHOOSE p \in S : \A q \in S : Len(q) <= Len(p)

\* the handler invoked is the one bound at key k, with k's note
InvokedAt(k) ==
    /\ InvokedOne
    /\ inv[1].match = k
    /\ inv[1].method = bindings[k].method
    /\ inv[1].note = bindings[k].note

-----------------------------------------------------------------------------
(* C1 *)

\* the set S of C1, for the request path as call takes it (the URL before its
\* last '?'; the two readings of "before its query" agree on a URL with one '?')
C1_S == {p \in DOMAIN bindings : SegmentPrefix(p, BeforeLast(url, "?"))}

C1_Plain ==
    {p \in DOMAIN bindings :
        /\ ~Contains(SubSeq(p, RFind(p, "/") + 1, Len(p)), ".")
        /\ SegmentPrefix(p, BeforeLast(url, "?"))}

-----------------------------------------------------------------------------
(* C2 *)

\* p ends in the middle of a word of s
MidWord(p, s) ==
    /\ IsPrefix(p, s)
    /\ Len(s) > Len(p)
    /\ s[Len(p) + 1] \notin {"/", "."}

\* C2: a call never invokes the binding at a key that ends in the middle of a
\* word of the URL's path; such a URL goes to a shorter binding, to the default
\* binding (with match '') or to the 404 sentinel.
C2_WordBoundary ==
    Returned =>
        /\ \A k \in DOMAIN bindings :
              MidWord(k, BeforeFirst(url, "?")) => ~(InvokedOne /\ inv[1].match = k)
        /\ (url = AA \o <<"a">> /\ has_key(bindings, AA)) =>
              IF has_key(bindings, A) THEN InvokedAt(A)
              ELSE IF has_key(bindings, Default)
                   THEN InvokedOne /\ inv[1].match = Empty
                          /\ inv[1].note = bindings[Default].note
                   ELSE inv = <<>> /\ ret = Some(NotFoundResult)

\* /a/a is bound and /a/aa was asked for: the call returned without /a/a
C2_Witness ==
    /\ Returned
    /\ url = AA \o <<"a">>
    /\ {A, AA} \subseteq DOMAIN bindings
    /\ InvokedAt(A)

-----------------------------------------------------------------------------
(* C3 *)

\* C3: on a hit of a path binding, for a type other than PUT the handler's
\* match, ext and rest concatenated are the URL; for PUT rest is the data that
\* was passed to call.
C3_RestOnHit ==
    Hit =>
        IF type # "PUT"
        THEN inv[1].match \o inv[1].ext \o inv[1].rest = url
        ELSE inv[1].rest = PutData

\* /a/a.a?a against /a/a: ext '.a', rest '?a'
C3_Witness ==
    /\ Hit
    /\ type = "GET"
    /\ url = AA \o <<".", "a", "?", "a">>
    /\ inv[1].match = AA
    /\ inv[1].ext = <<".", "a">>
    /\ inv[1].rest = <<"?", "a">>

-----------------------------------------------------------------------------
(* C4 *)

\* C4 as stated: for a bound key p and a URL p + '.' + e (+ '?' + q), e not
\* empty and without '/' or '?', the call invokes p's handler with match p and
\* ext = '.' + e, whatever e holds after its first character.
C4_ExtensionMatchesBase ==
    Returned =>
        \A p \in DOMAIN bindings :
            LET path == BeforeFirst(url, "?")
            IN (/\ FollowedBy(p, path, ".")
                /\ Len(path) > Len(p) + 1
                /\ ~Contains(SliceFrom(path, Len(p)), "/"))
               => /\ InvokedAt(p)
                  /\ inv[1].ext = SliceFrom(path, Len(p))

-----------------------------------------------------------------------------
(* C5 *)

\* C5 as stated: the binding at '/' is invoked only for a URL whose path before
\* the query is exactly '/', and a call of '/' invokes a path binding only if
\* '/' is bound.
C5_RootOnlyExact ==
    /\ (InvokedOne /\ inv[1].match = Root) => BeforeFirst(url, "?") = Root
    /\ (Hit /\ url = Root) => has_key(bindings, Root)

-----------------------------------------------------------------------------
(* C6 *)

\* C6 as stated: the handler of the default binding is only ever invoked with
\* match '' and ext '', its own note, and rest = the URL (the data for PUT);
\* a call that invoked no handler returned the 404 sentinel and 'default' is
\* not bound.
C6_NoMatchFallback ==
    Returned =>
        /\ (InvokedOne /\ inv[1].method = HandlerFor(Default)) =>
              inv[1] = Invocation(HandlerFor(Default), type, Empty, Empty,
                                  IF type # "PUT" THEN url ELSE PutData,
                                  NoteFor(Default))
        /\ (inv = <<>>) =>
              ret = Some(NotFoundResult) /\ ~has_key(bindings, Default)
        /\ Len(inv) <= 1

-----------------------------------------------------------------------------
(* C10 *)

\* C10 as stated: every iteration of the loop that finds no hit leaves match
\* strictly shorter, so the loop ends.
C10_LoopShortens ==
    [][(pc = "loop" /\ pc' = "loop") => Len(match') < Len(match)]_vars

-----------------------------------------------------------------------------
(* The binding table under bind, unbind and call, with its history *)

LogEntry(op, k, h, n) == [op |-> op, key |-> k, method |-> h, note |-> n]

TableKeys == {A, Default}
TableBinds == {<<"echo", "n1">>, <<"empty", "None">>}
TableURLs == {A, A \o <<"/", "a">>, Root}

BindLogged ==
    /\ pc = "idle"
    /\ Len(log) < MaxOps
    /\ \E k \in TableKeys, hn \in TableBinds :
          /\ Bind(k, hn[1], hn[2])
          /\ log' = Append(log, LogEntry("bind", k, hn[1], hn[2]))

UnbindLogged ==
    /\ pc = "idle"
    /\ Len(log) < MaxOps
    /\ \E k \in TableKeys :
          /\ Unbind(k)
          /\ log' = Append(log, LogEntry("unbind", k, "", ""))

CallOnTable ==
    /\ pc = "idle"
    /\ \E u \in TableURLs : CallBegin(u, "GET", Empty)

CallReturnRecorded ==
    /\ ReturnToCaller
    /\ prev' = Some([url |-> url, type |-> type, table |-> bindings,
                     inv |-> inv, ret |-> ret])

NextTable ==
    \/ BindLogged
    \/ UnbindLogged
    \/ CallOnTable
    \/ LoopHit
    \/ LoopMiss
    \/ FallbackDefault
    \/ FallbackNotFound
    \/ CallReturnRecorded

SpecTable == Init /\ [][NextTable]_vars

-----------------------------------------------------------------------------
(* C9 *)

\* the position in l of the last operation on key k
LastOp(l, k) == Max({i \in 1..Len(l) : l[i].key = k})

\* the table the history describes: for each path, the handler and note of its
\* most recent bind, unless an unbind of it came later
Replay(l) ==
    LET bound == {k \in {l[i].key : i \in 1..Len(l)} : l[LastOp(l, k)].op = "bind"}
    IN [k \in bound |-> [method |-> l[LastOp(l, k)].method,
                         note |-> l[LastOp(l, k)].note]]

\* C9: at every point of every run of bind, unbind and call (also while a call
\* runs) the table is what the history describes; a bind of p directly followed
\* by an unbind of p leaves p unbound; and a call that repeats the url and type
\* of an earlier call against an equal table invokes the same handler with the
\* same arguments and returns the same.
C9_TableState ==
    /\ bindings = Replay(log)
    /\ (/\ Len(log) >= 2
        /\ log[Len(log)].op = "unbind"
        /\ log[Len(log) - 1].op = "bind"
        /\ log[Len(log)].key = log[Len(log) - 1].key)
       => ~has_key(bindings, log[Len(log)].key)
    /\ (/\ Returned
        /\ prev # <<>>
        /\ prev[1].table = bindings
        /\ prev[1].url = url
        /\ prev[1].type = type)
       => (inv = prev[1].inv /\ ret = prev[1].ret)

\* a call, then bind and unbind of another path, then the same call again
C9_Witness ==
    /\ Returned
    /\ Len(log) = 3
    /\ log[1].op = "bind" /\ log[1].key = A
    /\ log[2].op = "bind" /\ log[2].key = Default
    /\ log[3].op = "unbind" /\ log[3].key = Default
    /\ prev # <<>>
    /\ prev[1].table = bindings
    /\ prev[1].url = url
    /\ url = A \o <<"/", "a">>
    /\ InvokedAt(A)

-----------------------------------------------------------------------------
(* MyHTTPRequestHandler *)

\* something written to the connection, or the hand-off to the file server
Ev(kind, code, name, text) == [kind |-> kind, code |-> code, name |-> name, text |-> text]

Digit(d) ==
    CASE d = 0 -> "0" [] d = 1 -> "1" [] d = 2 -> "2" [] d = 3 -> "3"
      [] d = 4 -> "4" [] d = 5 -> "5" [] d = 6 -> "6" [] d = 7 -> "7"
      [] d = 8 -> "8" [] OTHER -> "9"

\* the decimal text of n, as send_header formats the int it is given
RECURSIVE ToStr(_)
ToStr(n) == IF n < 10 THEN <<Digit(n)>> ELSE Append(ToStr(n \div 10), Digit(n % 10))

ContentLength(cl) == <<"Content-Length", ToStr(cl)>>

\* r = {'r': None, 'c': httplib.OK, 'h': None}; r.update(result)
Updated(result) ==
    [c |-> IF "c" \in result.keys THEN result.c ELSE OK,
     r |-> IF "r" \in result.keys THEN result.r ELSE None,
     h |-> IF "h" \in result.keys THEN result.h ELSE None]

\* len(r['r']) or 0
BodyLength(r) == IF r.r # None THEN Len(r.r[1]) ELSE 0

\* the items of the list r['h'] refers to
Items(h, shared) == IF h.ref = "shared" THEN shared ELSE h.items

\* r['h'] after the Content-Length header was added to it
HeadersWithLength(r, shared) ==
    IF r.h = None
    THEN <<ContentLength(BodyLength(r))>>
    ELSE Append(Items(r.h[1], shared), ContentLength(BodyLength(r)))

HeaderEvents(hs) == [i \in 1..Len(hs) |-> Ev("header", 0, hs[i][1], hs[i][2])]

HttpKeys == {A, Default}
HttpURLs == {A, A \o <<".", "a", "?", "a">>, Root}
Methods == {"GET", "POST", "PUT", "DELETE"}
\* the request's Content-Length header: usable or not
LengthHeaders == {"valid", "missing"}
RequestBody == <<"b", "d">>

\* do_GET, do_POST, do_PUT, do_DELETE: do_all up to its call of dispatch.call
Request(t, u, lh) ==
    /\ pc = "idle"
    /\ serial < MaxRequests
    /\ serial' = serial + 1
    /\ wire' = IF t = "PUT" THEN <<Ev("response", CONTINUE, "", Empty)>> ELSE <<>>
    /\ EnterCall("http", u, t,
                 IF t = "PUT" /\ lh = "valid" THEN RequestBody ELSE Empty)
    /\ UNCHANGED <<bindings, log, sharedH, prev>>

\* do_all after dispatch.call returned NOT_FOUND: nothing is written, and only
\* do_GET goes on to the file server
DoAllNotFound ==
    /\ pc = "done"
    /\ caller = "http"
    /\ Updated(ret[1]).c = NOT_FOUND
    /\ wire' = IF type = "GET" THEN Append(wire, Ev("fallback", 0, "", Empty)) ELSE wire
    /\ pc' = "served"
    /\ UNCHANGED <<bindings, caller, url, type, data, match, ext, iters, inv, ret,
                   log, serial, sharedH, prev>>

\* do_all after dispatch.call returned anything else: status line, headers,
\* body, close
DoAllWrite ==
    /\ pc = "done"
    /\ caller = "http"
    /\ Updated(ret[1]).c # NOT_FOUND
    /\ LET r == Updated(ret[1])
           hs == HeadersWithLength(r, sharedH)
       IN /\ sharedH' = IF r.h # None /\ r.h[1].ref = "shared" THEN hs ELSE sharedH
          /\ wire' = wire
                \o <<Ev(IF r.c >= BAD_REQUEST THEN "error" ELSE "response", r.c, "", Empty)>>
                \o HeaderEvents(hs)
                \o <<Ev("end_headers", 0, "", Empty)>>
                \o (IF r.r # None THEN <<Ev("body", 0, "", r.r[1])>> ELSE <<>>)
                \o <<Ev("close", 0, "", Empty)>>
    /\ pc' = "served"
    /\ UNCHANGED <<bindings, caller, url, type, data, match, ext, iters, inv, ret,
                   log, serial, prev>>

\* the request handler is through with the request
RequestDone ==
    /\ pc = "served"
    /\ NoCall
    /\ wire' = <<>>
    /\ UNCHANGED <<bindings, log, serial, sharedH, prev>>

BindHttp ==
    /\ pc = "idle"
    /\ \E k \in HttpKeys, h \in Handlers : Bind(k, h, "None") /\ UNCHANGED log
UnbindHttp ==
    /\ pc = "idle"
    /\ \E k \in HttpKeys : Unbind(k) /\ UNCHANGED log
Serve ==
    /\ pc = "idle"
    /\ \E t \in Methods, u \in HttpURLs, lh \in LengthHeaders : Request(t, u, lh)

NextHttp ==
    \/ BindHttp
    \/ UnbindHttp
    \/ Serve
    \/ LoopHit
    \/ LoopMiss
    \/ FallbackDefault
    \/ FallbackNotFound
    \/ DoAllNotFound
    \/ DoAllWrite
    \/ RequestDone

SpecHttp == Init /\ [][NextHttp]_vars

Served == pc = "served"
InvokedOneServed == Len(inv) = 1

Kinds(w) == [i \in 1..Len(w) |-> w[i].kind]
Count(w, kind) == Cardinality({i \in 1..Len(w) : w[i].kind = kind})

\* the headers do_all sent, as name and value, in order
SentHeaders(w) ==
    LET I == {i \in 1..Len(w) : w[i].kind = "header"}
        first == IF I = {} THEN 1 ELSE CHOOSE i \in I : \A j \in I : i <= j
    IN [n \in 1..Cardinality(I) |-> <<w[first + n - 1].name, w[first + n - 1].text>>]

-----------------------------------------------------------------------------
(* C7 *)

\* C7 as stated: when the dispatch result has status 404, a GET writes no
\* response and goes to the file server; any other method gets a 404 response
\* written (status, headers with Content-Length, end of headers) and the
\* connection closed.  No request ends with neither.
C7_NotFoundHandling ==
    (Served /\ Updated(ret[1]).c = NOT_FOUND) =>
        IF type = "GET"
        THEN Count(wire, "fallback") = 1 /\ Count(wire, "response") = 0
                /\ Count(wire, "error") = 0
        ELSE /\ \E i \in 1..Len(wire) :
                    wire[i].kind \in {"response", "error"} /\ wire[i].code = NOT_FOUND
             /\ \E i \in 1..Len(wire) :
                    wire[i].kind = "header" /\ wire[i].name = "Content-Length"
             /\ Count(wire, "end_headers") = 1
             /\ Count(wire, "close") = 1
             /\ Count(wire, "fallback") = 0

-----------------------------------------------------------------------------
(* C8 *)

\* the headers the handler that was invoked provides in its dictionary
ProvidedHeaders ==
    IF inv[1].method = "echo" THEN <<ContentType>>
    ELSE IF inv[1].method = "shared" THEN SharedHeaders0
    ELSE <<>>

\* C8 as stated: every response do_all writes carries the handler's headers in
\* order and then exactly one Content-Length, the length of the body (0 without
\* a body); a handler returning {} gives status 200, no body and the one header
\* Content-Length: 0; a handler returning the same header list every time gets
\* the same headers on every response.
C8_ResponseAssembly ==
    (Served /\ InvokedOneServed) =>
        /\ SentHeaders(wire) =
              Append(ProvidedHeaders, ContentLength(BodyLength(Updated(ret[1]))))
        /\ inv[1].method = "empty" =>
              /\ Kinds(wire) \in {<<"response", "header", "end_headers", "close">>,
                                  <<"response", "response", "header", "end_headers",
                                    "close">>}
              /\ wire[Len(wire) - 3].code = OK
              /\ SentHeaders(wire) = <<ContentLength(0)>>

-----------------------------------------------------------------------------
(* C11 *)

\* C11 as stated: the path matched is the URL before its first '?'; for a bound
\* key p and a URL p + '?' + q, whatever q holds (further '?' included), the
\* call invokes p's handler with match p, ext '' and (the type not being PUT)
\* rest = '?' + q.
C11_QuerySplitAtFirst ==
    Returned =>
        \A p \in DOMAIN bindings :
            (FollowedBy(p, url, "?") /\ BeforeFirst(url, "?") = p)
               => /\ InvokedAt(p)
                  /\ inv[1].ext = Empty
                  /\ type # "PUT" => inv[1].rest = SliceFrom(url, Len(p))

-----------------------------------------------------------------------------
(* C12 *)

\* the text of s after its last '/', all of s when it holds none
FinalSegment(s) == SubSeq(s, RFind(s, "/") + 1, Len(s))

\* '.' and the text after the last '.' of seg
Suffix(seg) == <<".">> \o SubSeq(seg, RFind(seg, ".") + 1, Len(seg))

\* C12 as stated: a handler gets a non-empty ext only if the final segment of
\* the original path (the URL before its query, as call takes it) holds a '.',
\* and then it is '.' and the text after that segment's last '.'; a hit after
\* one or more truncations gets ext = ''.
C12_ExtFromLastSegmentAsStated ==
    Hit =>
        LET seg == FinalSegment(BeforeLast(url, "?"))
        IN /\ inv[1].ext # Empty =>
                (Contains(seg, ".") /\ inv[1].ext = Suffix(seg))
           /\ iters > 1 => inv[1].ext = Empty

\* s is path, or a shorter prefix of path the loop can reach: one that ends
\* where a segment of path ends, or, when s holds no '/', where a '.' follows
Reached(s, path) ==
    \/ SegmentPrefix(s, path)
    \/ (~Contains(s, "/") /\ FollowedBy(s, path, "."))

\* C12, amended: match + ext of a hit is the original path (the URL before its
\* last '?') on the first iteration and a shorter prefix of it on a later one
\* (cut at a segment boundary, or before a '.' when no '/' is left); ext comes
\* from the final segment of that prefix: it is '.' and the text after that
\* segment's last '.' when the segment holds a '.', and '' otherwise.  So a
\* hit on a later iteration gets ext = '' unless the segment it stopped at
\* holds a '.'.
C12_ExtFromSegmentReached ==
    Hit =>
        LET path == BeforeLast(url, "?")
            s == inv[1].match \o inv[1].ext
            seg == FinalSegment(s)
        IN /\ Reached(s, path)
           /\ (iters = 1) <=> (s = path)
           /\ IF Contains(seg, ".")
              THEN inv[1].ext = Suffix(seg)
              ELSE inv[1].ext = Empty

\* /a.a/a against /a: the hit comes after a truncation, with ext '.a', rest '/a'
C12_Witness ==
    /\ Hit
    /\ url = ADotA \o <<"/", "a">>
    /\ iters = 2
    /\ inv[1].match = A
    /\ inv[1].ext = <<".", "a">>
    /\ inv[1].rest = <<"/", "a">>

====
